---- MODULE Spec2Model ----
(***************************************************************************)
(* Model of madymystrava/main.py: a Strava client that runs the OAuth2     *)
(* authorization-code flow once, refreshes the access token, lists the     *)
(* activities of the last 24 hours and renames the Yoga ones.              *)
(*                                                                         *)
(* Python strings are sequences of one-character strings, so that          *)
(* urlencode and the f-strings are computed character by character.        *)
(* The remote provider is the environment: every HTTP call receives a      *)
(* response [status_code, parses, json] chosen nondeterministically:       *)
(* parses tells whether the body is JSON, and response.json() raises when  *)
(* it is not.  An exception that nothing catches ends the run with exit    *)
(* status 1.                                                               *)
(***************************************************************************)
EXTENDS Integers, Sequences, FiniteSets, TLC

VARIABLES
    pc,               \* position of the running code
    env,              \* os.environ after load_dotenv()
    dotenv,           \* the .env files: the one load_dotenv() found and the
                      \* one of the working directory (same: one file)
    dotenvWrites,     \* number of set_key calls of this run
    stdinReads,       \* number of input() calls of this run
    authorization_code, \* main: authorization_code
    stdout,           \* printed messages, in order
    http,             \* HTTP exchanges (request and response), in order
    exitCode,         \* process exit status (Running while it runs)
    REFRESH_TOKEN,    \* main: REFRESH_TOKEN
    ACCESS_TOKEN,     \* main: ACCESS_TOKEN
    token_data,       \* main: token_data
    yoga_activities,  \* main: yoga_activities
    idx,              \* main: position of the for loop (next index)
    fn,               \* function under call (function-call specification)
    args,             \* its arguments and the provider's response
    ret               \* its return value

vars == <<pc, env, dotenv, dotenvWrites, stdinReads, authorization_code,
          stdout, http, exitCode,
          REFRESH_TOKEN, ACCESS_TOKEN, token_data, yoga_activities, idx,
          fn, args, ret>>

(***************************************************************************)
(* Bounds of the model.                                                    *)
(***************************************************************************)
MaxActs == 2
MaxId == 2
MaxLen == 2

(***************************************************************************)
(* String constants of the program.                                        *)
(***************************************************************************)
\* ASCII code points 32..95 in order
ASCII_32_95 ==
    <<" ","!","\"","#","$","%","&","'","(",")","*","+",",","-",".","/","0",
    "1","2","3","4","5","6","7","8","9",":",";","<","=",">","?","@","A","B",
    "C","D","E","F","G","H","I","J","K","L","M","N","O","P","Q","R","S","T",
    "U","V","W","X","Y","Z","[","\\","]","^","_">>

\* ASCII code points 123..126 in order
ASCII_123_126 ==
    <<"{","|","}","~">>

HexDigits ==
    <<"0","1","2","3","4","5","6","7","8","9","A","B","C","D","E","F">>

\* urllib.parse: characters quote() never encodes
AlwaysSafe ==
    <<"A","B","C","D","E","F","G","H","I","J","K","L","M","N","O","P","Q",
    "R","S","T","U","V","W","X","Y","Z","a","b","c","d","e","f","g","h","i",
    "j","k","l","m","n","o","p","q","r","s","t","u","v","w","x","y","z","0",
    "1","2","3","4","5","6","7","8","9","_",".","-","~">>

AuthorizeEndpoint ==
    <<"h","t","t","p","s",":","/","/","w","w","w",".","s","t","r","a","v",
    "a",".","c","o","m","/","o","a","u","t","h","/","a","u","t","h","o","r",
    "i","z","e">>

TokenEndpoint ==
    <<"h","t","t","p","s",":","/","/","w","w","w",".","s","t","r","a","v",
    "a",".","c","o","m","/","o","a","u","t","h","/","t","o","k","e","n">>

ActivitiesEndpoint ==
    <<"h","t","t","p","s",":","/","/","w","w","w",".","s","t","r","a","v",
    "a",".","c","o","m","/","a","p","i","/","v","3","/","a","t","h","l","e",
    "t","e","/","a","c","t","i","v","i","t","i","e","s">>

ActivityEndpoint ==
    <<"h","t","t","p","s",":","/","/","w","w","w",".","s","t","r","a","v",
    "a",".","c","o","m","/","a","p","i","/","v","3","/","a","c","t","i","v",
    "i","t","i","e","s","/">>

Scope ==
    <<"r","e","a","d",",","a","c","t","i","v","i","t","y",":","r","e","a",
    "d",",","a","c","t","i","v","i","t","y",":","w","r","i","t","e">>

BearerPrefix ==
    <<"B","e","a","r","e","r"," ">>

REDIRECT_URI ==
    <<"h","t","t","p",":","/","/","l","o","c","a","l","h","o","s","t">>

NEW_NAME ==
    <<"#","y","o","g","a","m","i","t","m","a","d","y">>

Yoga ==
    <<"Y","o","g","a">>

LowerYoga ==
    <<"y","o","g","a">>

NoneText ==
    <<"N","o","n","e">>

K_client_id ==
    <<"c","l","i","e","n","t","_","i","d">>

K_redirect_uri ==
    <<"r","e","d","i","r","e","c","t","_","u","r","i">>

K_response_type ==
    <<"r","e","s","p","o","n","s","e","_","t","y","p","e">>

K_scope ==
    <<"s","c","o","p","e">>

V_code ==
    <<"c","o","d","e">>

(***************************************************************************)
(* Program constants.                                                      *)
(***************************************************************************)
HttpOk == 200
PerPage == 100
SecondsPerDay == 86400
MaxFoldSeconds == 86400
Running == -1

(***************************************************************************)
(* Python values: a str or None.  A dict is a function from its keys.      *)
(***************************************************************************)
Str(s) == [t |-> "str", v |-> s]
None == [t |-> "NoneType", v |-> <<>>]

\* type(x) is str
IsStr(x) == x.t = "str"

\* bool(x) for a str or None
Truthy(x) == x.t = "str" /\ x.v # <<>>

\* str(x) as the f-strings apply it
Format(x) == IF x.t = "str" THEN x.v ELSE NoneText

\* dict.get(key, default)
Get(dict, key, default) == IF key \in DOMAIN dict THEN dict[key] ELSE default

EmptyDict == [k \in {} |-> None]

Range(s) == {s[i] : i \in 1..Len(s)}

\* ord(c) of a character that quote() has to encode
Ord(c) ==
    IF c \in Range(ASCII_32_95)
    THEN 31 + (CHOOSE i \in 1..Len(ASCII_32_95) : ASCII_32_95[i] = c)
    ELSE 122 + (CHOOSE i \in 1..Len(ASCII_123_126) : ASCII_123_126[i] = c)

\* str(n) of a non-negative int
RECURSIVE IntToStr(_)
IntToStr(n) ==
    IF n < 10 THEN <<HexDigits[n + 1]>>
    ELSE IntToStr(n \div 10) \o <<HexDigits[(n % 10) + 1]>>

\* urllib.parse.quote_plus of one character: kept, "+" for a space, or %XX
QuoteChar(c) ==
    IF c \in Range(AlwaysSafe) THEN <<c>>
    ELSE IF c = " " THEN <<"+">>
    ELSE <<"%", HexDigits[(Ord(c) \div 16) + 1], HexDigits[(Ord(c) % 16) + 1]>>

RECURSIVE quote_plus(_)
quote_plus(s) ==
    IF s = <<>> THEN <<>> ELSE QuoteChar(Head(s)) \o quote_plus(Tail(s))

\* urllib.parse.urlencode of the (key, value) pairs of a dict, in its order
RECURSIVE urlencode(_)
urlencode(params) ==
    IF params = <<>> THEN <<>>
    ELSE quote_plus(params[1][1]) \o <<"=">> \o quote_plus(params[1][2])
         \o (IF Len(params) > 1 THEN <<"&">> \o urlencode(Tail(params))
             ELSE <<>>)

(***************************************************************************)
(* The functions of main.py.  A function that calls the provider takes the *)
(* provider's response as an argument and returns its return value, the   *)
(* HTTP exchanges it made and the lines it printed.                        *)
(***************************************************************************)
build_auth_url(client_id, redirect_uri) ==
    LET params == << <<K_client_id, client_id>>,
                     <<K_redirect_uri, redirect_uri>>,
                     <<K_response_type, V_code>>,
                     <<K_scope, Scope>> >>
    IN  AuthorizeEndpoint \o <<"?">> \o urlencode(params)

Bearer(access_token) == BearerPrefix \o Format(access_token)

Exchange(method, url, headers, params, data, response) ==
    [method |-> method, url |-> url, headers |-> headers, params |-> params,
     data |-> data, response |-> response]

\* what a function call yields: its return value, the HTTP exchanges it
\* made, the lines it printed and whether it raised
Returns(value, calls, out) ==
    [ret |-> value, http |-> calls, out |-> out, raised |-> FALSE]

\* response.json() raised JSONDecodeError: nothing is returned or printed
Raises(calls) == [ret |-> None, http |-> calls, out |-> <<>>, raised |-> TRUE]

get_strava_tokens(client_id, client_secret, code, response) ==
    LET payload == [client_id |-> client_id, client_secret |-> client_secret,
                    code |-> code,
                    grant_type |-> "authorization_code"]
        call == Exchange("POST", TokenEndpoint, EmptyDict, EmptyDict, payload,
                         response)
    IN  IF ~response.parses THEN Raises(<<call>>)
        ELSE IF response.status_code = HttpOk
        THEN Returns(response.json, <<call>>, <<>>)
        ELSE Returns(EmptyDict, <<call>>,
                     <<[msg |-> "Failed to exchange code for tokens",
                        detail |-> response.json]>>)

refresh_strava_token(client_id, client_secret, refresh_token, response) ==
    LET payload == [client_id |-> client_id, client_secret |-> client_secret,
                    refresh_token |-> refresh_token,
                    grant_type |-> "refresh_token"]
        call == Exchange("POST", TokenEndpoint, EmptyDict, EmptyDict, payload,
                         response)
    IN  IF ~response.parses THEN Raises(<<call>>)
        ELSE IF response.status_code = HttpOk
        THEN Returns(response.json, <<call>>, <<>>)
        ELSE Returns(EmptyDict, <<call>>,
                     <<[msg |-> "Failed to refresh token",
                        detail |-> response.json]>>)

\* mutant of YogaOnly: the type is compared without regard to case
RECURSIVE YogaOnly_AnyCase(_)
YogaOnly_AnyCase(activities) ==
    IF activities = <<>> THEN <<>>
    ELSE (IF Head(activities).type \in {Yoga, LowerYoga}
          THEN <<Head(activities)>> ELSE <<>>)
         \o YogaOnly_AnyCase(Tail(activities))

\* [activity for activity in activities if activity['type'] == 'Yoga']
RECURSIVE YogaOnly(_)
YogaOnly(activities) ==
    IF activities = <<>> THEN <<>>
    ELSE (IF Head(activities).type = Yoga THEN <<Head(activities)>> ELSE <<>>)
         \o YogaOnly(Tail(activities))

get_yoga_activities(access_token, after, response) ==
    LET headers == [Authorization |-> Bearer(access_token)]
        params == [after |-> after, per_page |-> PerPage]
        call == Exchange("GET", ActivitiesEndpoint, headers, params, EmptyDict,
                         response)
    IN  IF ~response.parses THEN Raises(<<call>>)
        ELSE IF response.status_code = HttpOk
        THEN Returns(YogaOnly(response.json), <<call>>, <<>>)
        ELSE Returns(<<>>, <<call>>,
                     <<[msg |-> "Error", detail |-> response.json]>>)

\* the success branch does not read the body; the error branch does
update_activity_name(access_token, activity_id, new_name, response) ==
    LET url == ActivityEndpoint \o IntToStr(activity_id)
        headers == [Authorization |-> Bearer(access_token)]
        params == [name |-> new_name]
        call == Exchange("PUT", url, headers, params, EmptyDict, response)
    IN  IF response.status_code = HttpOk
        THEN Returns(None, <<call>>,
                     <<[msg |-> "Successfully updated activity",
                        detail |-> IntToStr(activity_id)]>>)
        ELSE IF ~response.parses THEN Raises(<<call>>)
        ELSE Returns(None, <<call>>,
                     <<[msg |-> "Error", detail |-> response.json]>>)

(***************************************************************************)
(* Environment, .env file and the provider's responses.                    *)
(***************************************************************************)
\* os.getenv(key)
getenv(environ, key) ==
    IF key \in DOMAIN environ THEN Str(environ[key]) ELSE None

\* dotenv.load_dotenv(): keys of .env that the process environment lacks
load_dotenv(environ, file) ==
    [k \in DOMAIN environ \cup DOMAIN file |->
        IF k \in DOMAIN environ THEN environ[k] ELSE file[k]]

\* dotenv.set_key(".env", key, value)
set_key(file, key, value) ==
    [k \in DOMAIN file \cup {key} |-> IF k = key THEN value ELSE file[k]]

\* set_key(".env", ...) writes the .env of the working directory, which is
\* the file load_dotenv() found only when the script runs from its directory
set_key_cwd(files, key, value) ==
    LET written == set_key(files.cwd, key, value)
    IN  [found |-> IF files.same THEN written ELSE files.found,
         cwd |-> written, same |-> files.same]

\* UTC offset of the local time zone at epoch second u (zone rules of
\* 2023-03-26 .. 2024-10-27)
UtcOffset(tz, u) ==
    IF tz = "Europe/Berlin"
    THEN (IF u < 1698541200 THEN 7200
          ELSE IF u < 1711846800 THEN 3600 ELSE 7200)
    ELSE IF tz = "America/New_York"
    THEN (IF u < 1699164000 THEN 0 - 14400
          ELSE IF u < 1710054000 THEN 0 - 18000 ELSE 0 - 14400)
    ELSE IF tz = "Asia/Kolkata" THEN 19800
    ELSE 0

\* time.localtime(u), as seconds of the wall clock
LocalTime(tz, u) == u + UtcOffset(tz, u)

\* datetime.now(): the naive local time at epoch second u
DatetimeNow(tz, u) == LocalTime(tz, u)

\* naive datetime.timestamp() of wall-clock second t (fold = 0)
Timestamp(tz, t) ==
    LET a == LocalTime(tz, t) - t
        u1 == t - a
        t1 == LocalTime(tz, u1)
        b == IF t1 = t
             THEN LocalTime(tz, u1 - MaxFoldSeconds) - (u1 - MaxFoldSeconds)
             ELSE t1 - u1
        u2 == t - b
        t2 == LocalTime(tz, u2)
    IN  IF t1 = t /\ a = b THEN u1
        ELSE IF t2 = t THEN u2
        ELSE IF t1 = t THEN u1
        ELSE IF u1 > u2 THEN u1 ELSE u2

SeqsUpTo(S, n) == UNION {[1..k -> S] : k \in 0..n}

ClientId ==
    <<"4","2">>

ClientSecret ==
    <<"s","3">>

StoredToken ==
    <<"r","0">>

FileToken ==
    <<"r","f">>

ExchangedRefresh ==
    <<"r","1">>

ExchangedAccess ==
    <<"a","1">>

RefreshedRefresh ==
    <<"r","2">>

RefreshedAccess ==
    <<"a","2">>

AuthCode ==
    <<"c","0">>

OtherName ==
    <<"E","v","e","n","i","n","g"," ","Y","o","g","a">>

Run ==
    <<"R","u","n">>

Now0 == 1700000000

\* time zone of the process and instant of the run
Clocks ==
    {<<"UTC", Now0>>, <<"Europe/Berlin", 1698577200>>,
     <<"Europe/Berlin", 1711882800>>}

ErrorStatuses == {401, 500}

Fault == [message |-> "Authorization Error"]

DetailedActivity == [resource_state |-> 3]

\* JSON bodies of the token exchange: no token, both tokens, no refresh
\* token, or both keys with null
ExchangeJson ==
    {EmptyDict,
     [access_token |-> Str(ExchangedAccess),
      refresh_token |-> Str(ExchangedRefresh)],
     [access_token |-> Str(ExchangedAccess)],
     [access_token |-> None, refresh_token |-> None]}

\* JSON bodies of the token refresh: no token, both tokens, no access
\* token, or both keys with null
RefreshJson ==
    {EmptyDict,
     [access_token |-> Str(RefreshedAccess),
      refresh_token |-> Str(RefreshedRefresh)],
     [refresh_token |-> Str(RefreshedRefresh)],
     [access_token |-> None, refresh_token |-> None]}

\* a response with the given status and JSON body
Response(status, body) ==
    [status_code |-> status, parses |-> TRUE, json |-> body]

\* responses whose body is not JSON (an HTML error page, an empty body)
NotJsonResponses ==
    {[status_code |-> s, parses |-> FALSE, json |-> EmptyDict] :
        s \in {HttpOk, 502}}

TokenResponses(bodies) ==
    {Response(HttpOk, j) : j \in bodies}
    \cup {Response(401, Fault)}
    \cup NotJsonResponses

Activities ==
    [id : 1..MaxId, name : {NEW_NAME, OtherName}, type : {Yoga, Run, LowerYoga}]

\* the provider lists every activity once: the ids of a list are distinct
ActivityLists ==
    {l \in SeqsUpTo(Activities, MaxActs) :
        \A i, j \in 1..Len(l) : i # j => l[i].id # l[j].id}

ListOkResponses == {Response(HttpOk, l) : l \in ActivityLists}

ErrorResponses == {Response(s, Fault) : s \in ErrorStatuses}

UpdateResponses ==
    {Response(HttpOk, DetailedActivity)} \cup ErrorResponses
    \cup NotJsonResponses

\* responses to the PUT calls of a run
RunUpdateResponses ==
    {Response(HttpOk, DetailedActivity), Response(404, Fault),
     [status_code |-> 502, parses |-> FALSE, json |-> EmptyDict]}

ProcessEnvs ==
    {load_dotenv(load_dotenv(c, s), r) :
        c \in {EmptyDict, [STRAVA_CLIENT_ID |-> ClientId]},
        s \in {EmptyDict, [STRAVA_CLIENT_SECRET |-> ClientSecret]},
        r \in {EmptyDict, [STRAVA_REFRESH_TOKEN |-> <<>>],
               [STRAVA_REFRESH_TOKEN |-> StoredToken]}}

DotenvFiles ==
    {EmptyDict,
     [STRAVA_CLIENT_ID |-> ClientId, STRAVA_REFRESH_TOKEN |-> FileToken]}

\* the script runs from its own directory, or its .env exists and the run
\* starts from another directory, which has no .env
DotenvStates ==
    {[found |-> f, cwd |-> f, same |-> TRUE] : f \in DotenvFiles}
    \cup {[found |-> f, cwd |-> EmptyDict, same |-> FALSE] :
            f \in DotenvFiles \ {EmptyDict}}

(***************************************************************************)
(* The run of the script (the __main__ block).                             *)
(***************************************************************************)
CLIENT_ID == getenv(env, "STRAVA_CLIENT_ID")
CLIENT_SECRET == getenv(env, "STRAVA_CLIENT_SECRET")

\* line 9 and the state before line 75
Init ==
    /\ pc = "credentials"
    /\ dotenv \in DotenvStates
    /\ \E environ \in ProcessEnvs : env = load_dotenv(environ, dotenv.found)
    /\ dotenvWrites = 0
    /\ stdinReads = 0
    /\ authorization_code = None
    /\ stdout = <<>>
    /\ http = <<>>
    /\ exitCode = Running
    /\ REFRESH_TOKEN = None
    /\ ACCESS_TOKEN = None
    /\ token_data = EmptyDict
    /\ yoga_activities = <<>>
    /\ idx = 1
    /\ fn = "__main__"
    /\ args = EmptyDict
    /\ ret = None

\* mutant of MissingCredentials: "and" in place of "or"
MissingCredentials_Both(client_id, client_secret) ==
    client_id = None /\ client_secret = None

\* if CLIENT_ID is None or CLIENT_SECRET is None
MissingCredentials(client_id, client_secret) ==
    client_id = None \/ client_secret = None

\* mutant of NeedsAuthorization: the stored token is ignored
NeedsAuthorization_Always(refresh_token) == TRUE

\* if not REFRESH_TOKEN
NeedsAuthorization(refresh_token) == ~Truthy(refresh_token)

\* if type(REFRESH_TOKEN) is not str
ExchangeFailed(refresh_token) == ~IsStr(refresh_token)

\* token_data.get("refresh_token", "")
RefreshTokenOf(data) == Get(data, "refresh_token", Str(<<>>))

\* token_data.get("access_token", "")
AccessTokenOf(data) == Get(data, "access_token", Str(<<>>))

\* int((datetime.now() - timedelta(days=1)).timestamp()) at instant now
AfterTimestamp(tz, now) == Timestamp(tz, DatetimeNow(tz, now) - SecondsPerDay)

\* mutant of NeedsRename: the name is not compared
NeedsRename_Always(activity) == TRUE

\* if activity['name'] != NEW_NAME
NeedsRename(activity) == activity.name # NEW_NAME

FnVarsUnchanged == UNCHANGED <<fn, args, ret>>

\* lines 75-85
CheckCredentials ==
    /\ pc = "credentials"
    /\ IF MissingCredentials(CLIENT_ID, CLIENT_SECRET)
       THEN /\ stdout' = Append(stdout,
                    [msg |-> "Error: Missing credentials", detail |-> <<>>])
            /\ exitCode' = 1
            /\ pc' = "exited"
            /\ UNCHANGED REFRESH_TOKEN
       ELSE /\ REFRESH_TOKEN' = getenv(env, "STRAVA_REFRESH_TOKEN")
            /\ pc' = "authorize"
            /\ UNCHANGED <<stdout, exitCode>>
    /\ UNCHANGED <<env, dotenv, dotenvWrites, stdinReads, authorization_code, http, ACCESS_TOKEN,
                   token_data, yoga_activities, idx>>
    /\ FnVarsUnchanged

\* lines 87-88: the first-run branch prints the consent URL
PrintAuthUrl ==
    /\ pc = "authorize"
    /\ NeedsAuthorization(REFRESH_TOKEN)
    /\ stdout' = Append(stdout,
            [msg |-> "Navigate to the following URL",
             detail |-> build_auth_url(CLIENT_ID.v, REDIRECT_URI)])
    /\ pc' = "input"
    /\ UNCHANGED <<env, dotenv, dotenvWrites, stdinReads, authorization_code,
                   http, exitCode, REFRESH_TOKEN, ACCESS_TOKEN, token_data,
                   yoga_activities, idx>>
    /\ FnVarsUnchanged

\* line 89: input() writes its prompt to stdout unless it runs on a
\* terminal, and reads one line; at end of file EOFError ends the run
ReadCode ==
    /\ pc = "input"
    /\ stdinReads' = stdinReads + 1
    /\ \E terminal \in BOOLEAN :
        stdout' = IF terminal THEN stdout
                  ELSE Append(stdout, [msg |-> "Enter the authorization code: ",
                                       detail |-> <<>>])
    /\ \/ /\ \E line \in {AuthCode} : authorization_code' = Str(line)
          /\ pc' = "exchange"
          /\ UNCHANGED exitCode
       \/ /\ exitCode' = 1
          /\ pc' = "exited"
          /\ UNCHANGED authorization_code
    /\ UNCHANGED <<env, dotenv, dotenvWrites, http, REFRESH_TOKEN,
                   ACCESS_TOKEN, token_data, yoga_activities, idx>>
    /\ FnVarsUnchanged

\* lines 90-95: the token exchange and the persisting of its refresh token
ExchangeCode ==
    /\ pc = "exchange"
    /\ \E response \in TokenResponses(ExchangeJson) :
        LET r == get_strava_tokens(CLIENT_ID.v, CLIENT_SECRET.v,
                                   authorization_code.v, response)
            token == RefreshTokenOf(r.ret)
        IN  /\ http' = http \o r.http
            /\ IF r.raised
               THEN /\ exitCode' = 1
                    /\ pc' = "exited"
                    /\ UNCHANGED <<stdout, token_data, REFRESH_TOKEN, dotenv,
                                   dotenvWrites>>
               ELSE /\ token_data' = r.ret
                    /\ REFRESH_TOKEN' = token
                    /\ IF ExchangeFailed(token)
                       THEN /\ stdout' = stdout \o r.out \o
                                 <<[msg |-> "Error: Failed to get refresh token",
                                    detail |-> <<>>]>>
                            /\ exitCode' = 1
                            /\ pc' = "exited"
                            /\ UNCHANGED <<dotenv, dotenvWrites>>
                       ELSE /\ stdout' = stdout \o r.out
                            /\ dotenv' = set_key_cwd(dotenv,
                                             "STRAVA_REFRESH_TOKEN", token.v)
                            /\ dotenvWrites' = dotenvWrites + 1
                            /\ pc' = "refresh"
                            /\ UNCHANGED exitCode
    /\ UNCHANGED <<env, stdinReads, authorization_code, ACCESS_TOKEN,
                   yoga_activities, idx>>
    /\ FnVarsUnchanged

\* mutant of Refresh: ACCESS_TOKEN is read from token_data before the
\* refresh result is assigned to it
Refresh_StaleTokenData ==
    /\ \/ pc = "refresh"
       \/ pc = "authorize" /\ ~NeedsAuthorization(REFRESH_TOKEN)
    /\ \E response \in TokenResponses(RefreshJson) :
        LET r == refresh_strava_token(CLIENT_ID.v, CLIENT_SECRET.v,
                                      REFRESH_TOKEN.v, response)
        IN  /\ http' = http \o r.http
            /\ IF r.raised
               THEN /\ exitCode' = 1
                    /\ pc' = "exited"
                    /\ UNCHANGED <<stdout, token_data, ACCESS_TOKEN>>
               ELSE /\ stdout' = stdout \o r.out
                    /\ token_data' = r.ret
                    /\ ACCESS_TOKEN' = AccessTokenOf(token_data)
                    /\ pc' = "fetch"
                    /\ UNCHANGED exitCode
    /\ UNCHANGED <<env, dotenv, dotenvWrites, stdinReads, authorization_code,
                   REFRESH_TOKEN, yoga_activities, idx>>
    /\ FnVarsUnchanged

\* lines 97-98
Refresh ==
    /\ \/ pc = "refresh"
       \/ pc = "authorize" /\ ~NeedsAuthorization(REFRESH_TOKEN)
    /\ \E response \in TokenResponses(RefreshJson) :
        LET r == refresh_strava_token(CLIENT_ID.v, CLIENT_SECRET.v,
                                      REFRESH_TOKEN.v, response)
        IN  /\ http' = http \o r.http
            /\ IF r.raised
               THEN /\ exitCode' = 1
                    /\ pc' = "exited"
                    /\ UNCHANGED <<stdout, token_data, ACCESS_TOKEN>>
               ELSE /\ stdout' = stdout \o r.out
                    /\ token_data' = r.ret
                    /\ ACCESS_TOKEN' = AccessTokenOf(r.ret)
                    /\ pc' = "fetch"
                    /\ UNCHANGED exitCode
    /\ UNCHANGED <<env, dotenv, dotenvWrites, stdinReads, authorization_code,
                   REFRESH_TOKEN, yoga_activities, idx>>
    /\ FnVarsUnchanged

\* the list call of lines 100-105 with the given response
FetchWith(clock, response) ==
    LET r == get_yoga_activities(ACCESS_TOKEN,
                                 AfterTimestamp(clock[1], clock[2]), response)
    IN  /\ http' = http \o r.http
        /\ IF r.raised
           THEN /\ exitCode' = 1
                /\ pc' = "exited"
                /\ UNCHANGED <<stdout, yoga_activities>>
           ELSE /\ stdout' = stdout \o r.out
                /\ yoga_activities' = r.ret
                /\ pc' = "rename"
                /\ UNCHANGED exitCode

\* lines 100-105
Fetch ==
    /\ pc = "fetch"
    /\ \E clock \in Clocks :
        \/ \E response \in ListOkResponses : FetchWith(clock, response)
        \/ \E response \in ErrorResponses : FetchWith(clock, response)
        \/ \E response \in NotJsonResponses : FetchWith(clock, response)
    /\ idx' = 1
    /\ UNCHANGED <<env, dotenv, dotenvWrites, stdinReads, authorization_code,
                   REFRESH_TOKEN, ACCESS_TOKEN, token_data>>
    /\ FnVarsUnchanged

\* lines 107-109: one iteration that renames
Rename ==
    /\ pc = "rename"
    /\ idx <= Len(yoga_activities)
    /\ NeedsRename(yoga_activities[idx])
    /\ \E response \in RunUpdateResponses :
        LET r == update_activity_name(ACCESS_TOKEN, yoga_activities[idx].id,
                                      NEW_NAME, response)
        IN  /\ http' = http \o r.http
            /\ IF r.raised
               THEN /\ exitCode' = 1
                    /\ pc' = "exited"
                    /\ UNCHANGED <<stdout, idx>>
               ELSE /\ stdout' = stdout \o r.out
                    /\ idx' = idx + 1
                    /\ UNCHANGED <<pc, exitCode>>
    /\ UNCHANGED <<env, dotenv, dotenvWrites, stdinReads, authorization_code,
                   REFRESH_TOKEN, ACCESS_TOKEN, token_data, yoga_activities>>
    /\ FnVarsUnchanged

\* lines 107-108: one iteration over an activity already named NEW_NAME
Skip ==
    /\ pc = "rename"
    /\ idx <= Len(yoga_activities)
    /\ ~NeedsRename(yoga_activities[idx])
    /\ idx' = idx + 1
    /\ UNCHANGED <<pc, env, dotenv, dotenvWrites, stdinReads, authorization_code, stdout, http,
                   exitCode, REFRESH_TOKEN, ACCESS_TOKEN, token_data,
                   yoga_activities>>
    /\ FnVarsUnchanged

\* end of the script: the interpreter exits with status 0
Finish ==
    /\ pc = "rename"
    /\ idx > Len(yoga_activities)
    /\ exitCode' = 0
    /\ pc' = "exited"
    /\ UNCHANGED <<env, dotenv, dotenvWrites, stdinReads, authorization_code, stdout, http,
                   REFRESH_TOKEN, ACCESS_TOKEN, token_data, yoga_activities,
                   idx>>
    /\ FnVarsUnchanged

Next ==
    \/ CheckCredentials
    \/ PrintAuthUrl
    \/ ReadCode
    \/ ExchangeCode
    \/ Refresh
    \/ Fetch
    \/ Rename
    \/ Skip
    \/ Finish

Spec == Init /\ [][Next]_vars

(***************************************************************************)
(* Calls of single functions with arbitrary arguments and an arbitrary     *)
(* response of the provider, as the unit tests make them.                  *)
(***************************************************************************)
ExampleClientId ==
    <<"1","2","3","4","5">>

ExampleRedirectUri ==
    <<"h","t","t","p","s",":","/","/","e","x","a","m","p","l","e",".","c",
    "o","m","/","c","a","l","l","b","a","c","k">>

Alphabet == {"a", "1", "/", ":", " "}

Strings == SeqsUpTo(Alphabet, MaxLen)

AccessTokens == {Str(RefreshedAccess), Str(<<>>), None}

BuildAuthUrlArgs ==
    [client_id : Strings \cup {ExampleClientId},
     redirect_uri : Strings \cup {ExampleRedirectUri, REDIRECT_URI}]

ListOkArgs ==
    [access_token : AccessTokens, after : {AfterTimestamp("UTC", Now0)},
     response : ListOkResponses]

ListErrorArgs ==
    [access_token : AccessTokens, after : {AfterTimestamp("UTC", Now0)},
     response : ErrorResponses]

ListNotJsonArgs ==
    [access_token : AccessTokens, after : {AfterTimestamp("UTC", Now0)},
     response : NotJsonResponses]

UpdateArgs ==
    [access_token : AccessTokens, activity_id : 1..MaxId \cup {12345},
     new_name : {NEW_NAME, OtherName}, response : UpdateResponses]

InitCall ==
    /\ pc = "call"
    /\ env = EmptyDict
    /\ dotenv = [found |-> EmptyDict, cwd |-> EmptyDict, same |-> TRUE]
    /\ dotenvWrites = 0
    /\ stdinReads = 0
    /\ authorization_code = None
    /\ stdout = <<>>
    /\ http = <<>>
    /\ exitCode = Running
    /\ REFRESH_TOKEN = None
    /\ ACCESS_TOKEN = None
    /\ token_data = EmptyDict
    /\ yoga_activities = <<>>
    /\ idx = 1
    /\ ret = None
    /\ \/ fn = "build_auth_url" /\ args \in BuildAuthUrlArgs
       \/ fn = "get_yoga_activities" /\ args \in ListOkArgs
       \/ fn = "get_yoga_activities" /\ args \in ListErrorArgs
       \/ fn = "get_yoga_activities" /\ args \in ListNotJsonArgs
       \/ fn = "update_activity_name" /\ args \in UpdateArgs

MainVarsUnchanged ==
    UNCHANGED <<env, dotenv, dotenvWrites, stdinReads, authorization_code, exitCode,
                REFRESH_TOKEN, ACCESS_TOKEN, token_data, yoga_activities,
                idx, fn, args>>

CallBuildAuthUrl ==
    /\ pc = "call"
    /\ fn = "build_auth_url"
    /\ ret' = build_auth_url(args.client_id, args.redirect_uri)
    /\ pc' = "returned"
    /\ UNCHANGED <<http, stdout>>
    /\ MainVarsUnchanged

CallGetYogaActivities ==
    /\ pc = "call"
    /\ fn = "get_yoga_activities"
    /\ LET r == get_yoga_activities(args.access_token, args.after,
                                    args.response)
       IN  /\ ret' = r.ret
           /\ http' = http \o r.http
           /\ stdout' = stdout \o r.out
           /\ pc' = IF r.raised THEN "raised" ELSE "returned"
    /\ MainVarsUnchanged

CallUpdateActivityName ==
    /\ pc = "call"
    /\ fn = "update_activity_name"
    /\ LET r == update_activity_name(args.access_token, args.activity_id,
                                     args.new_name, args.response)
       IN  /\ ret' = r.ret
           /\ http' = http \o r.http
           /\ stdout' = stdout \o r.out
           /\ pc' = IF r.raised THEN "raised" ELSE "returned"
    /\ MainVarsUnchanged

NextCall ==
    \/ CallBuildAuthUrl
    \/ CallGetYogaActivities
    \/ CallUpdateActivityName

SpecCall == InitCall /\ [][NextCall]_vars

(***************************************************************************)
(* Observations on the log of HTTP exchanges, used by the properties.      *)
(***************************************************************************)
IsExchangeCall(c) ==
    c.method = "POST" /\ c.data.grant_type = "authorization_code"

IsRefreshCall(c) == c.method = "POST" /\ c.data.grant_type = "refresh_token"

IsListCall(c) == c.method = "GET"

IsUpdateCall(c) == c.method = "PUT"

ExchangeCalls == SelectSeq(http, IsExchangeCall)

RefreshCalls == SelectSeq(http, IsRefreshCall)

ListCalls == SelectSeq(http, IsListCall)

UpdateCalls == SelectSeq(http, IsUpdateCall)

\* the activities the provider returned to the list call of this run
Fetched ==
    IF ListCalls # <<>> /\ ListCalls[1].response.status_code = 200
    THEN ListCalls[1].response.json ELSE <<>>

IsRenameTarget(a) == a.type = Yoga /\ a.name # NEW_NAME

RenameTargets == SelectSeq(Fetched, IsRenameTarget)

Printed(msg) == \E i \in 1..Len(stdout) : stdout[i].msg = msg

HasCredentials ==
    "STRAVA_CLIENT_ID" \in DOMAIN env /\ "STRAVA_CLIENT_SECRET" \in DOMAIN env

StartedWithToken ==
    /\ "STRAVA_REFRESH_TOKEN" \in DOMAIN env
    /\ env["STRAVA_REFRESH_TOKEN"] # <<>>

\* a token response that does not carry a string under the key
LacksToken(response, key) ==
    \/ response.status_code # 200
    \/ /\ response.parses
       /\ \/ key \notin DOMAIN response.json
          \/ response.json[key].t # "str"

\* a token response without the key at all (or not a 200 response)
WithoutKey(response, key) ==
    \/ response.status_code # 200
    \/ response.parses /\ key \notin DOMAIN response.json

\* r is l restricted to its Yoga activities: same order, none dropped,
\* none duplicated, none added
IsYogaSubsequence(r, l) ==
    \E f \in [1..Len(r) -> 1..Len(l)] :
        /\ \A i, j \in 1..Len(r) : i < j => f[i] < f[j]
        /\ \A i \in 1..Len(r) : r[i] = l[f[i]]
        /\ {f[i] : i \in 1..Len(r)} = {k \in 1..Len(l) : l[k].type = Yoga}

ExampleAuthUrl ==
    <<"h","t","t","p","s",":","/","/","w","w","w",".","s","t","r","a","v",
    "a",".","c","o","m","/","o","a","u","t","h","/","a","u","t","h","o","r",
    "i","z","e","?","c","l","i","e","n","t","_","i","d","=","1","2","3","4",
    "5","&","r","e","d","i","r","e","c","t","_","u","r","i","=","h","t","t",
    "p","s",":","/","/","e","x","a","m","p","l","e",".","c","o","m","/","c",
    "a","l","l","b","a","c","k","&","r","e","s","p","o","n","s","e","_","t",
    "y","p","e","=","c","o","d","e","&","s","c","o","p","e","=","r","e","a",
    "d","%","2","C","a","c","t","i","v","i","t","y","%","3","A","r","e","a",
    "d","%","2","C","a","c","t","i","v","i","t","y","%","3","A","w","r","i",
    "t","e">>

(***************************************************************************)
(* Properties.                                                             *)
(***************************************************************************)

\* C1: in the first-run path, when the token exchange result lacks a valid
\* refresh_token (non-200 response, or no refresh_token key), the process
\* aborts with exit code 1, writes nothing to the configuration file and
\* makes no further call.  (Violated: the default "" of token_data.get is
\* a str, so the type check at line 92 does not catch the missing token.)
C1_FailedExchangeAborts ==
    (ExchangeCalls # <<>> /\ LacksToken(ExchangeCalls[1].response,
                                         "refresh_token"))
        => /\ pc = "exited"
           /\ exitCode = 1
           /\ dotenvWrites = 0
           /\ dotenv \in DotenvStates
           /\ Len(http) = 1

\* C2: for every list of activities returned with HTTP 200,
\* get_yoga_activities returns, and returns exactly the subsequence of the
\* activities whose type is "Yoga" (case-sensitive), in the original order.
C2_YogaSubsequence ==
    (fn = "get_yoga_activities" /\ pc # "call"
        /\ args.response.status_code = 200 /\ args.response.parses)
        => /\ pc = "returned"
           /\ IsYogaSubsequence(ret, args.response.json)

C2_Witness ==
    /\ fn = "get_yoga_activities"
    /\ pc = "returned"
    /\ args.response.status_code = 200
    /\ Len(args.response.json) = 2
    /\ args.response.json[1].type = LowerYoga
    /\ args.response.json[2].type = Yoga
    /\ Len(ret) = 1

C4_MissingCredentialsAbort ==
    ~HasCredentials
        => /\ pc \in {"credentials", "exited"}
           /\ pc = "exited" => exitCode = 1
           /\ ~Printed("Navigate to the following URL")
           /\ stdinReads = 0
           /\ http = <<>>
           /\ dotenvWrites = 0
           /\ dotenv \in DotenvStates

C4_Witness ==
    /\ "STRAVA_CLIENT_ID" \in DOMAIN env
    /\ "STRAVA_CLIENT_SECRET" \notin DOMAIN env
    /\ pc = "exited"
    /\ exitCode = 1

\* C5: when the activity-list call returns a non-200 status,
\* get_yoga_activities returns an empty sequence and raises nothing, the
\* run makes no PUT call and ends normally (the loop has nothing to do,
\* exit code 0).  (Violated: line 59 evaluates response.json() in the
\* error branch, which raises when the error body is not JSON.)
C5_ListFailureIsEmpty ==
    (ListCalls # <<>> /\ ListCalls[1].response.status_code # 200)
        => /\ yoga_activities = <<>>
           /\ UpdateCalls = <<>>
           /\ \/ pc = "rename" /\ idx > Len(yoga_activities)
              \/ pc = "exited" /\ exitCode = 0

\* C6: a failed token refresh (non-200 response, or a response without
\* access_token) does not abort the run: the list call is still made, with
\* an empty access token, the rename loop runs over what it returns and
\* the exit code is 0.  (Violated: line 45 evaluates response.json() in
\* the error branch, which raises when the error body is not JSON.)
C6_FailedRefreshNonFatal ==
    (RefreshCalls # <<>> /\ WithoutKey(RefreshCalls[1].response,
                                       "access_token"))
        => /\ pc \in {"fetch", "rename", "exited"}
           /\ pc = "exited" => exitCode = 0
           /\ pc \in {"rename", "exited"}
                => /\ Len(ListCalls) = 1
                   /\ ListCalls[1].headers.Authorization = BearerPrefix
           /\ \A i \in 1..Len(UpdateCalls) :
                UpdateCalls[i].headers.Authorization = BearerPrefix
           /\ pc = "exited" => Len(UpdateCalls) = Len(RenameTargets)

\* C7: the configuration file is written at most once per run and only in
\* a run that started without a stored refresh token; a run that starts
\* with a non-empty stored refresh token prints no consent URL, reads no
\* input, makes no token exchange and leaves the file unchanged, even if
\* the refresh response carries a new refresh_token.
C7_State ==
    /\ dotenvWrites <= 1
    /\ dotenvWrites = 1 => ~StartedWithToken
    /\ StartedWithToken
        => /\ ~Printed("Navigate to the following URL")
           /\ stdinReads = 0
           /\ ExchangeCalls = <<>>
           /\ dotenvWrites = 0

C7_PersistOnlyOnFirstRun ==
    /\ []C7_State
    /\ [][/\ dotenvWrites' <= dotenvWrites + 1
          /\ dotenv' # dotenv => dotenvWrites' = dotenvWrites + 1
          /\ StartedWithToken => dotenv' = dotenv]_vars

C7_Witness ==
    /\ StartedWithToken
    /\ pc = "exited"
    /\ exitCode = 0
    /\ RefreshCalls # <<>>
    /\ RefreshCalls[1].response.status_code = 200
    /\ "refresh_token" \in DOMAIN RefreshCalls[1].response.json
    /\ RefreshCalls[1].response.json.refresh_token = Str(RefreshedRefresh)

\* C8: update_activity_name makes exactly one PUT request per call, to the
\* endpoint of the given activity id, with the bearer token and the name
\* parameter, whatever the response status; on a non-200 status it raises
\* nothing and does not retry.  (Violated: line 72 evaluates
\* response.json() in the error branch, which raises when the error body
\* is not JSON.)
C8_OnePutPerCall ==
    (fn = "update_activity_name" /\ pc # "call")
        => /\ Len(http) = 1
           /\ http[1].method = "PUT"
           /\ http[1].url = ActivityEndpoint \o IntToStr(args.activity_id)
           /\ http[1].headers.Authorization
                = BearerPrefix \o Format(args.access_token)
           /\ http[1].params = [name |-> args.new_name]
           /\ pc = "returned"
           /\ ret = None

\* C9: build_auth_url("12345", "https://example.com/callback") returns the
\* authorize endpoint followed by client_id, redirect_uri, response_type
\* and scope with the redirect URI appearing as given.  (Violated:
\* urlencode percent-encodes the ":" and "/" of the redirect URI.)
C9_ExampleAuthUrl ==
    (fn = "build_auth_url" /\ pc = "returned"
        /\ args.client_id = ExampleClientId
        /\ args.redirect_uri = ExampleRedirectUri)
        => ret = ExampleAuthUrl

\* the access token a refresh response yields to the run
RefreshedToken(response) ==
    IF WithoutKey(response, "access_token") THEN <<>>
    ELSE IF response.json.access_token.t = "str"
         THEN response.json.access_token.v ELSE NoneText

CallRank(c) ==
    IF IsExchangeCall(c) THEN 1
    ELSE IF IsRefreshCall(c) THEN 2
    ELSE IF IsListCall(c) THEN 3 ELSE 4

\* C10: in a run that passes the credential check and does not abort, the
\* remote calls come in the fixed order: one token exchange (first run
\* only), exactly one refresh, exactly one list call, then the updates;
\* every list and update call carries the access token of the refresh.
C10_CallOrder ==
    /\ \A i, j \in 1..Len(http) : i < j => CallRank(http[i]) <= CallRank(http[j])
    /\ Len(ExchangeCalls) <= 1
    /\ Len(RefreshCalls) <= 1
    /\ Len(ListCalls) <= 1
    /\ ExchangeCalls # <<>> => ~StartedWithToken
    /\ (pc \in {"refresh", "fetch", "rename"} \/ exitCode = 0)
        => Len(ExchangeCalls) = (IF StartedWithToken THEN 0 ELSE 1)
    /\ (pc \in {"fetch", "rename"} \/ exitCode = 0) => Len(RefreshCalls) = 1
    /\ (pc = "rename" \/ exitCode = 0) => Len(ListCalls) = 1
    /\ \A i \in 1..Len(http) :
        (IsListCall(http[i]) \/ IsUpdateCall(http[i]))
            => /\ RefreshCalls # <<>>
               /\ http[i].headers.Authorization
                    = BearerPrefix \o RefreshedToken(RefreshCalls[1].response)

C10_Witness ==
    /\ exitCode = 0
    /\ ~StartedWithToken
    /\ Len(http) = 5
    /\ RefreshCalls[1].response.status_code = 200
    /\ RefreshedToken(RefreshCalls[1].response) = RefreshedAccess

====
